---- MODULE Spec2Model ----
(***************************************************************************)
(* Model of the executors of the tutorial notebooks:                       *)
(*   - the image-search flows of the segmentation notebook (index flow:    *)
(*     YoloV5Segmenter -> SimpleIndexer.index beside LMDBStorage.index;    *)
(*     query flow: SimpleIndexer.search -> SimpleRanker.rank ->            *)
(*     LMDBStorage.search),                                                *)
(*   - the feature hashing of TagsHasher (Image_Search_via_Text.ipynb),    *)
(*   - CharEmbed and Indexer of the fuzzy-grep notebook, and               *)
(*   - SimpleIndexer.search of the doc2query notebook.                     *)
(* Scores are cosine distances in hundredths (5 stands for 0.05).          *)
(***************************************************************************)
EXTENDS Integers, Sequences, FiniteSets, TLC

VARIABLES
    db,         \* LMDB database of LMDBStorage: key (Document id) -> bytes or NotFound
    last_put,   \* history: per key, the Document most recently put and whether a put
                \* replaced an earlier one
    docs,       \* DocumentArray of the search request travelling through the query flow
    stage,      \* the last executor of the query flow that handled the request
    raised,     \* the exception that most recently ended an executor call of the
                \* flows, or NoError when none did
    rank_in,    \* history: docs of this request as SimpleRanker.rank received them
    env,        \* number of LMDB environments that are open
    th,         \* the TagsHasher instance: n_dim, max_val, sparse
    da,         \* DocumentArray given to TagsHasher.encode: doc id -> Document
    enc_raised, \* exception that ended the last TagsHasher.encode call, or NoError
    enc_docs,   \* history: positions in da of the Documents the last encode call received
    _docs,      \* Indexer._docs of the fuzzy-grep notebook: an attribute of the class
    added_by,   \* history: per position of _docs, the Indexer instance whose foo added it
    grep_req,   \* request of the fuzzy-grep flow: its Documents and the Indexer
                \* instance whose bar served it (0 when none has)
    _index,     \* SimpleIndexer._index of the image notebook: the indexed root
                \* Documents, each with its chunks
    flow,       \* index request of the image index flow and how far each of its
                \* two branches has come
    calls,      \* invocations running side by side: worker -> Record and position
    frames      \* local variables of the running invocations: frame -> locals

vars == <<db, last_put, docs, stage, raised, rank_in, env, th, da, enc_raised, enc_docs,
          _docs, added_by, grep_req, _index, flow, calls, frames>>

matcherVars == <<db, last_put, docs, stage, raised, rank_in, env>>
hasherVars == <<th, da, enc_raised, enc_docs>>
indexerVars == <<_docs, added_by, grep_req>>
flowVars == <<_index, flow>>
workerVars == <<calls, frames>>

----------------------------------------------------------------------------
(* Bounds and input universes *)

MaxMatches == 3     \* matches carried by one search request, over all its docs
MaxDocs == 2        \* query Documents in one search request
MaxBatch == 2       \* Documents in one index request

None == "None"
NotFound == "NotFound"
NoError == "NoError"
NoScore == -1       \* Document.scores has no entry for the metric

ParentIds == {"parentA", "parentB"}
ChunkIds == {"chunk1", "chunk2", "chunk3"}
Scores == {5, 10, 20}
Contents == {"img1", "img2"}

\* parent_id that ChunkArray.append gave each chunk when the segmenter
\* appended it to its root Document
ChunkParent(c) == IF c = "chunk3" THEN "parentB" ELSE "parentA"

----------------------------------------------------------------------------
(* Documents *)

\* docarray Document restricted to the fields the executors read or write;
\* content stands for uri / tensor / tags / chunks of the payload
Document(id, parent_id, score, content) ==
    [id |-> id, parent_id |-> parent_id, score |-> score, content |-> content]

\* Document(id=match_parent_id, scores={metric: NamedScore(value=score)})
NewMatch(id, score) == Document(id, None, score, None)

\* a chunk as docs.match returns it: copy of the indexed chunk plus its score
ChunkMatch(c, s) == Document(c, ChunkParent(c), s, c)

\* a root Document as the index request carries it
RootDoc(p, content) == Document(p, None, NoScore, content)

\* a query Document of a search request
QueryDoc(ms) == [matches |-> ms]

\* Document.to_bytes / Document.from_bytes: every field is serialized
to_bytes(d) == <<"bytes", d.id, d.parent_id, d.score, d.content>>

from_bytes(b) ==
    IF b = NotFound
    THEN [exc |-> "TypeError", doc |-> None]
    ELSE [exc |-> NoError, doc |-> Document(b[2], b[3], b[4], b[5])]

----------------------------------------------------------------------------
(* Sequence helpers *)

RECURSIVE SeqSum(_)
SeqSum(s) == IF s = <<>> THEN 0 ELSE Head(s) + SeqSum(Tail(s))

Range(s) == {s[i] : i \in DOMAIN s}

\* all sequences of length at most n without repetition over S
RECURSIVE InjSeqs(_, _)
InjSeqs(S, n) ==
    IF n = 0 THEN {<<>>}
    ELSE LET shorter == InjSeqs(S, n - 1)
             longer == {Append(s, x) : s \in shorter, x \in S}
         IN shorter \cup {t \in longer : \A i, j \in DOMAIN t : i # j => t[i] # t[j]}

----------------------------------------------------------------------------
(* SimpleRanker.rank *)

\* one key per match instead of one per parent
keys_per_match(ms) == [i \in DOMAIN ms |-> ms[i].parent_id]

\* keys of parents_scores (a defaultdict keeps insertion order): the
\* parent ids of the matches in order of first appearance
RECURSIVE parents_keys(_)
parents_keys(ms) ==
    IF ms = <<>> THEN <<>>
    ELSE LET front == parents_keys(SubSeq(ms, 1, Len(ms) - 1))
             p == ms[Len(ms)].parent_id
         IN IF p \in Range(front) THEN front ELSE Append(front, p)

\* parents_scores[p]: the scores appended for parent p, in match order
RECURSIVE parents_scores(_, _)
parents_scores(ms, p) ==
    IF ms = <<>> THEN <<>>
    ELSE LET rest == parents_scores(Tail(ms), p)
         IN IF Head(ms).parent_id = p THEN <<Head(ms).score>> \o rest ELSE rest

\* min() replaced by the first score of the group
first_score(scores) == scores[1]

\* Python min() over a non-empty list
RECURSIVE min(_)
min(scores) ==
    IF Len(scores) = 1 THEN scores[1]
    ELSE LET m == min(Tail(scores))
         IN IF Head(scores) <= m THEN Head(scores) ELSE m

\* sorted(matches, key=lambda d: d.scores[metric].value): stable, ascending
RECURSIVE insert_sorted(_, _)
insert_sorted(s, d) ==
    IF s = <<>> THEN <<d>>
    ELSE IF Head(s).score <= d.score
         THEN <<Head(s)>> \o insert_sorted(Tail(s), d)
         ELSE <<d>> \o s

RECURSIVE sorted(_)
sorted(ms) ==
    IF ms = <<>> THEN <<>>
    ELSE insert_sorted(sorted(SubSeq(ms, 1, Len(ms) - 1)), ms[Len(ms)])

\* a placeholder entry when nothing matched
scored_or_placeholder(ms) ==
    LET keys == parents_keys(ms)
    IN IF keys = <<>> THEN <<NewMatch(None, NoScore)>>
       ELSE [i \in DOMAIN keys |-> NewMatch(keys[i], min(parents_scores(ms, keys[i])))]

\* the list `matches` built from parents_scores.items()
aggregate(ms) ==
    LET keys == parents_keys(ms)
    IN [i \in DOMAIN keys |-> NewMatch(keys[i], min(parents_scores(ms, keys[i])))]

\* extend without the clear
keep(ms) == ms

\* doc.matches.clear(); doc.matches.extend(...)
clear(ms) == <<>>

\* entries that have no parent_id are kept as they are
rank_parented(doc) ==
    [doc EXCEPT !.matches =
        IF \A k \in DOMAIN doc.matches : doc.matches[k].parent_id = None
        THEN doc.matches
        ELSE clear(doc.matches) \o sorted(aggregate(doc.matches))]

\* body of `for doc in docs` in rank
rank_doc(doc) ==
    [doc EXCEPT !.matches = clear(doc.matches) \o sorted(aggregate(doc.matches))]

\* `matches = []` before `for doc in docs`: the entries built for the
\* earlier docs stay in the list
RECURSIVE carried(_, _)
carried(ds, i) ==
    IF i = 0 THEN <<>> ELSE carried(ds, i - 1) \o aggregate(ds[i].matches)

rank_carrying(ds) == [i \in DOMAIN ds |-> [ds[i] EXCEPT !.matches = sorted(carried(ds, i))]]

\* `for doc in docs` of SimpleRanker.rank
rank(ds) == [i \in DOMAIN ds |-> rank_doc(ds[i])]

----------------------------------------------------------------------------
(* LMDBStorage *)

\* transaction.get(key): the stored bytes, or None when the key is absent
get(store, k) == IF k \in DOMAIN store THEN store[k] ELSE NotFound

\* put with overwrite=False: an existing key keeps its value
put_if_absent(store, k, v) ==
    [x \in DOMAIN store \cup {k} |-> IF x \in DOMAIN store THEN store[x] ELSE v]

\* transaction.put(key, value): overwrite=True is lmdb's default
put(store, k, v) == [x \in DOMAIN store \cup {k} |-> IF x = k THEN v ELSE store[x]]

\* `for d in docs: transaction.put(d.id.encode(), d.to_bytes())`
RECURSIVE put_all(_, _)
put_all(store, batch) ==
    IF batch = <<>> THEN store
    ELSE put_all(put(store, Head(batch).id, to_bytes(Head(batch))), Tail(batch))

\* match_doc.copy_from(serialized_doc): every field of the match is
\* overwritten by the stored copy
copy_from(match_doc, other) == other

\* body of `for match_doc in doc.matches` from position i on; stops at the
\* first exception
RECURSIVE fill_matches(_, _, _)
fill_matches(store, ms, i) ==
    IF i > Len(ms) THEN [matches |-> ms, exc |-> NoError]
    ELSE LET id == ms[i].id
             r == from_bytes(get(store, id))
         IN IF r.exc # NoError
            THEN [matches |-> ms, exc |-> r.exc]
            ELSE LET filled == [copy_from(ms[i], r.doc) EXCEPT !.id = id]
                 IN fill_matches(store, [ms EXCEPT ![i] = filled], i + 1)

\* `for doc in docs` of LMDBStorage.search from position j on
RECURSIVE fill_docs(_, _, _)
fill_docs(store, ds, j) ==
    IF j > Len(ds) THEN [docs |-> ds, exc |-> NoError]
    ELSE LET r == fill_matches(store, ds[j].matches, 1)
             ds2 == [ds EXCEPT ![j].matches = r.matches]
         IN IF r.exc # NoError
            THEN [docs |-> ds2, exc |-> r.exc]
            ELSE fill_docs(store, ds2, j + 1)

\* _LMDBHandler.__enter__: lmdb.Environment(...) opens an environment
handler_enter(open) == open + 1

\* _LMDBHandler.__exit__: self._env.close(); the handler of a call whose
\* __enter__ returned has the attribute _env
handler_exit(open) == open - 1

\* the environment is closed only when the block returns
exit_on_return(open, exc) ==
    IF exc = NoError THEN handler_exit(handler_enter(open)) ELSE handler_enter(open)

\* `with self._handler() as env:` around a block that ended with exc:
\* __exit__ runs whether the block returned or raised
with_handler(open, exc) == handler_exit(handler_enter(open))

\* every put is visible as soon as it is made
keep_writes(before, after, exc) == after

\* `with env.begin(write=True) as transaction:` around a block that ended
\* with exc: the writes are committed when it returned, dropped when it raised
transaction_exit(before, after, exc) == IF exc = NoError THEN after ELSE before

----------------------------------------------------------------------------
(* Requests *)

\* match lists docs.match can attach to one query: distinct indexed chunks,
\* each with a score
MatchLists(n) ==
    UNION {{[i \in DOMAIN cs |-> ChunkMatch(cs[i], sc[i])] : sc \in [DOMAIN cs -> Scores]}
           : cs \in InjSeqs(ChunkIds, n)}

TotalMatches(ds) == SeqSum([i \in DOMAIN ds |-> Len(ds[i].matches)])

\* search requests as they leave chunks_indexer
RECURSIVE SearchRequests(_)
SearchRequests(n) ==
    IF n = 0 THEN {<<>>}
    ELSE LET shorter == SearchRequests(n - 1)
         IN shorter \cup
            {Append(ds, QueryDoc(ms)) :
                ds \in {r \in shorter : Len(r) = n - 1},
                ms \in MatchLists(MaxMatches)}

RECURSIVE SeqsUpTo(_, _)
SeqsUpTo(S, n) ==
    IF n = 0 THEN {<<>>}
    ELSE LET shorter == SeqsUpTo(S, n - 1)
         IN shorter \cup {Append(s, x) : s \in {r \in shorter : Len(r) = n - 1}, x \in S}

\* index requests: root Documents, ids chosen by the caller
IndexRequests ==
    SeqsUpTo({RootDoc(p, c) : p \in ParentIds, c \in Contents}, MaxBatch) \ {<<>>}

----------------------------------------------------------------------------
(* Actions of the image-search flows *)

\* history of the puts of one committed index request
puts_recorded(last, batch) ==
    [p \in DOMAIN last \cup {batch[i].id : i \in DOMAIN batch} |->
        LET hits == {i \in DOMAIN batch : batch[i].id = p}
            latest == CHOOSE i \in hits : \A k \in hits : k <= i
        IN IF hits = {} THEN last[p]
           ELSE [doc |-> batch[latest],
                 overwrote |-> \/ p \in DOMAIN last
                               \/ Cardinality(hits) > 1]]

\* root_indexer on /index: LMDBStorage.index
LMDBStorage_index(batch) ==
    /\ db' = put_all(db, batch)
    /\ env' = with_handler(env, NoError)
    /\ last_put' = puts_recorded(last_put, batch)
    /\ UNCHANGED <<docs, stage, raised, rank_in, hasherVars, indexerVars, workerVars, flowVars>>

\* root_indexer on /index when put number i raises (lmdb.MapFullError: the
\* map has no room left): the transaction is aborted
LMDBStorage_index_raises(batch, i) ==
    /\ db' = transaction_exit(db, put_all(db, SubSeq(batch, 1, i - 1)), "MapFullError")
    /\ env' = with_handler(env, "MapFullError")
    /\ raised' = "MapFullError"
    /\ UNCHANGED <<last_put, docs, stage, rank_in, hasherVars, indexerVars, workerVars, flowVars>>

\* ranker on /search: SimpleRanker.rank
SimpleRanker_rank ==
    /\ stage = "matched"
    /\ rank_in' = docs
    /\ docs' = rank(docs)
    /\ stage' = "ranked"
    /\ UNCHANGED <<db, last_put, raised, env, hasherVars, indexerVars, workerVars, flowVars>>

\* root_indexer on /search: LMDBStorage.search
LMDBStorage_search ==
    /\ stage = "ranked"
    /\ LET r == fill_docs(db, docs, 1)
       IN /\ docs' = r.docs
          /\ raised' = r.exc
          /\ env' = with_handler(env, r.exc)
    /\ stage' = IF raised' = NoError THEN "resolved" ELSE "failed"
    /\ UNCHANGED <<db, last_put, rank_in, hasherVars, indexerVars, workerVars, flowVars>>

----------------------------------------------------------------------------
(* Specification of the image-search flows *)

HasherIdle ==
    /\ th = [n_dim |-> 256, max_val |-> 65536, sparse |-> FALSE]
    /\ da = <<>>
    /\ enc_raised = NoError
    /\ enc_docs = <<>>

\* no request has reached the fuzzy-grep flow
NoRequest == [docs |-> <<>>, via |-> 0]

IndexerIdle ==
    /\ _docs = <<>>
    /\ added_by = <<>>
    /\ grep_req = NoRequest

\* no index request has been posted to the image index flow
NoFlow == [docs |-> <<>>, chunks |-> "idle", roots |-> "idle"]

FlowIdle ==
    /\ _index = <<>>
    /\ flow = NoFlow

WorkersIdle ==
    /\ calls = <<>>
    /\ frames = <<>>

\* requests of the query flow as chunks_indexer hands them to the ranker:
\* SimpleIndexer.search has attached the chunk-level matches
SimpleIndexer_search ==
    {r \in SearchRequests(MaxDocs) : TotalMatches(r) <= MaxMatches}

InitMatcher ==
    /\ db = <<>>
    /\ last_put = <<>>
    /\ docs \in SimpleIndexer_search
    /\ stage = "matched"
    /\ raised = NoError
    /\ rank_in = <<>>
    /\ env = 0
    /\ HasherIdle
    /\ IndexerIdle
    /\ WorkersIdle
    /\ FlowIdle

NextMatcher ==
    \/ \E batch \in IndexRequests : LMDBStorage_index(batch)
    \/ SimpleRanker_rank
    \/ LMDBStorage_search

SpecMatcher == InitMatcher /\ [][NextMatcher]_vars

\* search requests that carry the same chunk-level matches twice
InitRepeat ==
    /\ db = <<>>
    /\ last_put = <<>>
    /\ \E ms \in MatchLists(MaxMatches) : docs = <<QueryDoc(ms), QueryDoc(ms)>>
    /\ stage = "matched"
    /\ raised = NoError
    /\ rank_in = <<>>
    /\ env = 0
    /\ HasherIdle
    /\ IndexerIdle
    /\ WorkersIdle
    /\ FlowIdle

SpecRepeat == InitRepeat /\ [][NextMatcher]_vars

\* the flows with one query Document per search request and a store whose
\* map can fill up
StoreRequests == {<<>>} \cup {<<QueryDoc(ms)>> : ms \in MatchLists(MaxMatches)}

InitStore ==
    /\ db = <<>>
    /\ last_put = <<>>
    /\ docs \in StoreRequests
    /\ stage = "matched"
    /\ raised = NoError
    /\ rank_in = <<>>
    /\ env = 0
    /\ HasherIdle
    /\ IndexerIdle
    /\ WorkersIdle
    /\ FlowIdle

NextStore ==
    \/ \E batch \in IndexRequests : LMDBStorage_index(batch)
    \/ \E batch \in IndexRequests : \E i \in DOMAIN batch : LMDBStorage_index_raises(batch, i)
    \/ SimpleRanker_rank
    \/ LMDBStorage_search

SpecStore == InitStore /\ [][NextStore]_vars

\* ranker on /search once more, on the request it has already ranked
SimpleRanker_rank_again ==
    /\ stage = "ranked"
    /\ rank_in' = docs
    /\ docs' = rank(docs)
    /\ stage' = "reranked"
    /\ UNCHANGED <<db, last_put, raised, env, hasherVars, indexerVars, workerVars, flowVars>>

NextRerank ==
    \/ \E batch \in IndexRequests : LMDBStorage_index(batch)
    \/ SimpleRanker_rank
    \/ SimpleRanker_rank_again
    \/ LMDBStorage_search

SpecRerank == InitStore /\ [][NextRerank]_vars

----------------------------------------------------------------------------
(* Properties of the image-search flows *)

ParentsOf(ms) == {ms[j].parent_id : j \in DOMAIN ms}
IdsOf(ms) == {ms[j].id : j \in DOMAIN ms}
ScoreSetOf(ms, p) == {ms[j].score : j \in {x \in DOMAIN ms : ms[x].parent_id = p}}
SetMin(S) == CHOOSE x \in S : \A y \in S : x <= y

ExampleMatches ==
    <<ChunkMatch("chunk1", 10), ChunkMatch("chunk2", 5), ChunkMatch("chunk3", 20)>>
ExampleRanked == <<NewMatch("parentA", 5), NewMatch("parentB", 20)>>

\* C1: after rank, every entry of a query's match list carries the minimum
\* of the scores of the matched chunks of the parent it names, every parent
\* of a matched chunk has an entry, the entries are in ascending order of
\* score, and the example list yields [(parentA, 0.05), (parentB, 0.2)].
C1_RankMinAscending ==
    stage = "ranked" =>
        \A i \in DOMAIN docs :
            LET out == docs[i].matches
                inp == rank_in[i].matches
            IN /\ \A k \in DOMAIN out :
                    /\ out[k].id \in ParentsOf(inp)
                    /\ out[k].score = SetMin(ScoreSetOf(inp, out[k].id))
               /\ \A p \in ParentsOf(inp) : p \in IdsOf(out)
               /\ \A k \in 1..(Len(out) - 1) : out[k].score <= out[k + 1].score
               /\ inp = ExampleMatches => out = ExampleRanked

C1_Witness ==
    /\ stage = "ranked"
    /\ Len(docs) >= 1
    /\ rank_in[1].matches = ExampleMatches
    /\ docs[1].matches = ExampleRanked

\* C7: after rank, a query's match list has exactly one entry per distinct
\* parent id of its input chunk matches: no id twice, none missing, none extra.
C7_OneEntryPerParent ==
    stage = "ranked" =>
        \A i \in DOMAIN docs :
            LET out == docs[i].matches
                inp == rank_in[i].matches
            IN /\ \A k, l \in DOMAIN out : k # l => out[k].id # out[l].id
               /\ IdsOf(out) = ParentsOf(inp)
               /\ Len(out) = Cardinality(ParentsOf(inp))

C7_Witness ==
    /\ stage = "ranked"
    /\ \E i \in DOMAIN docs :
          /\ \E k, l \in DOMAIN rank_in[i].matches :
                /\ k # l
                /\ rank_in[i].matches[k].parent_id = rank_in[i].matches[l].parent_id
                /\ rank_in[i].matches[k].score # rank_in[i].matches[l].score
          /\ Len(docs[i].matches) < Len(rank_in[i].matches)

\* C8: after rank, a query's match list holds only newly built parent-level
\* entries for its own input: no chunk-level entry of the input list remains
\* and nothing comes from another query of the request.
C8_MatchesReplaced ==
    stage = "ranked" =>
        \A i \in DOMAIN docs :
            LET out == docs[i].matches
                inp == rank_in[i].matches
            IN \A k \in DOMAIN out :
                  /\ out[k] \notin Range(inp)
                  /\ out[k].id \notin ChunkIds
                  /\ \E p \in ParentsOf(inp) :
                        out[k] = NewMatch(p, SetMin(ScoreSetOf(inp, p)))

C8_Witness ==
    /\ stage = "ranked"
    /\ Len(docs) = 2
    /\ ParentsOf(rank_in[1].matches) = {"parentA"}
    /\ ParentsOf(rank_in[2].matches) = {"parentB"}
    /\ IdsOf(docs[1].matches) = {"parentA"}
    /\ IdsOf(docs[2].matches) = {"parentB"}

\* C9: the store is a last-writer-wins map: every key ever put is present,
\* its lookup deserializes to the Document most recently put under it, and
\* putting the stored value again leaves the store unchanged.
C9_LastWriterWins ==
    /\ DOMAIN db = DOMAIN last_put
    /\ \A k \in DOMAIN last_put :
          /\ from_bytes(get(db, k)).exc = NoError
          /\ from_bytes(get(db, k)).doc = last_put[k].doc
          /\ put(db, k, to_bytes(last_put[k].doc)) = db

C9_Witness ==
    \E k \in DOMAIN last_put :
        /\ last_put[k].overwrote
        /\ last_put[k].doc.content = "img2"
        /\ from_bytes(get(db, k)).doc = RootDoc(k, "img2")

\* C3: a match that LMDBStorage.search has resolved still has the id it had
\* before the lookup and the aggregated score that rank assigned to it.
C3_IdAndScorePreserved ==
    stage = "resolved" =>
        \A i \in DOMAIN docs :
            LET out == docs[i].matches
                inp == rank_in[i].matches
            IN \A k \in DOMAIN out :
                  out[k].content # None =>
                      /\ out[k].id \in ParentsOf(inp)
                      /\ out[k].score = SetMin(ScoreSetOf(inp, out[k].id))

\* C4: when LMDBStorage.search handles a query whose matches name exactly one
\* parent absent from the store and at least one present parent, every
\* present parent's match comes back filled with its stored payload,
\* whatever the order of the matches.
C4_PresentFilledDespiteAbsent ==
    [][(stage = "ranked" /\ stage' \in {"resolved", "failed"}) =>
         \A i \in DOMAIN docs :
            LET ms == docs[i].matches
                absent == {k \in DOMAIN ms : ms[k].id \notin DOMAIN db}
                present == DOMAIN ms \ absent
            IN (Cardinality(absent) = 1 /\ present # {}) =>
                  \A k \in present :
                      /\ docs'[i].matches[k].id = ms[k].id
                      /\ docs'[i].matches[k].content = from_bytes(db[ms[k].id]).doc.content
      ]_vars

C17_EmptyMatchesStayEmpty ==
    stage \in {"ranked", "resolved", "failed"} =>
        /\ \A i \in DOMAIN docs : rank_in[i].matches = <<>> => docs[i].matches = <<>>
        /\ (\A i \in DOMAIN docs : rank_in[i].matches = <<>>) => stage # "failed"

C17_Witness ==
    /\ stage = "resolved"
    /\ db # <<>>
    /\ Len(docs) = 1
    /\ rank_in[1].matches = <<>>
    /\ docs[1].matches = <<>>

\* C20: whenever no call of LMDBStorage is running, no LMDB environment is
\* open: index and search close the environment they opened, also when a
\* put raised or the deserialization of a missing record raised.
C20_EnvironmentClosed == env = 0

C20_Witness ==
    /\ stage = "failed"
    /\ raised = "TypeError"
    /\ \E i \in DOMAIN docs : \E k \in DOMAIN docs[i].matches :
          docs[i].matches[k].id \notin DOMAIN db
    /\ env = 0

----------------------------------------------------------------------------
(* TagsHasher: Python values *)

Scale == 10             \* numbers are kept in tenths: q stands for q / 10
Md5Mod == 16777216      \* an md5 digest is known by its residue modulo 2^24

\* attribute values (Python objects held in doc.tags); a str is the
\* sequence of its characters
PyInt(n) == [t |-> "int", v |-> n]
PyFloat(q) == [t |-> "float", v |-> q]
PyBool(b) == [t |-> "bool", v |-> b]
PyStr(s) == [t |-> "str", v |-> s]
PyNone == [t |-> "none", v |-> None]
PyList(items) == [t |-> "list", v |-> items]
PyTuple(items) == [t |-> "tuple", v |-> items]
PyDict(items) == [t |-> "dict", v |-> items]

\* numbers produced by _any_hash: an int or a float of value q / Scale; an
\* md5 digest is an int of which only the residue q / Scale modulo Md5Mod
\* is kept
Number(kind, q, digest) == [kind |-> kind, q |-> q, digest |-> digest]
IntNum(n) == Number("int", n * Scale, FALSE)
FloatNum(q) == Number("float", q, FALSE)

Returns(x) == [exc |-> NoError, val |-> x]
Raises(e) == [exc |-> e, val |-> None]

Digits == <<"0", "1", "2", "3", "4", "5", "6", "7", "8", "9">>
Upper == <<"A", "B", "C", "D", "E", "F", "G", "H", "I", "J", "K", "L", "M",
           "N", "O", "P", "Q", "R", "S", "T", "U", "V", "W", "X", "Y", "Z">>
Lower == <<"a", "b", "c", "d", "e", "f", "g", "h", "i", "j", "k", "l", "m",
           "n", "o", "p", "q", "r", "s", "t", "u", "v", "w", "x", "y", "z">>

IsDigit(c) == \E i \in DOMAIN Digits : Digits[i] = c
DigitVal(c) == (CHOOSE i \in DOMAIN Digits : Digits[i] = c) - 1
IsSpace(c) == c \in {" ", "\t", "\n"}

\* str.strip()
RECURSIVE lstrip(_)
lstrip(s) == IF s # <<>> /\ IsSpace(Head(s)) THEN lstrip(Tail(s)) ELSE s

RECURSIVE rstrip(_)
rstrip(s) ==
    IF s # <<>> /\ IsSpace(s[Len(s)]) THEN rstrip(SubSeq(s, 1, Len(s) - 1)) ELSE s

strip(s) == rstrip(lstrip(s))

\* str.lower()
lower(s) ==
    [i \in DOMAIN s |->
        IF \E j \in DOMAIN Upper : Upper[j] = s[i]
        THEN Lower[CHOOSE j \in DOMAIN Upper : Upper[j] = s[i]]
        ELSE s[i]]

AllDigits(s) == s # <<>> /\ \A i \in DOMAIN s : IsDigit(s[i])

RECURSIVE DigitsVal(_)
DigitsVal(s) ==
    IF s = <<>> THEN 0
    ELSE 10 * DigitsVal(SubSeq(s, 1, Len(s) - 1)) + DigitVal(s[Len(s)])

HasSign(s) == s # <<>> /\ Head(s) \in {"+", "-"}
Unsigned(s) == IF HasSign(s) THEN Tail(s) ELSE s
SignOf(s) == IF s # <<>> /\ Head(s) = "-" THEN -1 ELSE 1

\* position of the decimal point of s, 0 when it has none
DotAt(s) == IF \E i \in DOMAIN s : s[i] = "." THEN CHOOSE i \in DOMAIN s : s[i] = "." ELSE 0

\* int() of a stripped str: an optional sign and decimal digits
\* the sign of the literal is dropped
parse_magnitude(sign, body) ==
    IF AllDigits(body) THEN Returns(IntNum(DigitsVal(body)))
    ELSE Raises("ValueError")

parse_digits(sign, body) ==
    IF AllDigits(body) THEN Returns(IntNum(sign * DigitsVal(body)))
    ELSE Raises("ValueError")

parse_int(s) == parse_digits(SignOf(s), Unsigned(s))

\* int(v)
py_int(v) ==
    CASE v.t = "int" -> Returns(IntNum(v.v))
      [] v.t = "bool" -> Returns(IntNum(IF v.v THEN 1 ELSE 0))
      [] v.t = "float" ->       \* truncation towards zero
            Returns(IntNum(IF v.v >= 0 THEN v.v \div Scale ELSE -((-v.v) \div Scale)))
      [] v.t = "str" -> parse_int(strip(v.v))
      [] OTHER -> Raises("TypeError")     \* None, list, tuple, dict

\* float() of a stripped str: decimal literals with at most one digit after
\* the point
decimal(sign, dot, whole, frac) ==
    IF dot > 0 /\ Len(frac) <= 1 /\ AllDigits(whole \o frac)
    THEN Returns(FloatNum(sign * (DigitsVal(whole) * Scale + DigitsVal(frac))))
    ELSE Raises("ValueError")

split_decimal(sign, body, dot) ==
    decimal(sign, dot, SubSeq(body, 1, dot - 1), SubSeq(body, dot + 1, Len(body)))

parse_decimal(sign, body) == split_decimal(sign, body, DotAt(body))

parse_float(s) == parse_decimal(SignOf(s), Unsigned(s))

\* float(v)
py_float(v) ==
    CASE v.t = "str" -> parse_float(strip(v.v))
      [] v.t = "int" -> Returns(FloatNum(v.v * Scale))
      [] v.t = "bool" -> Returns(FloatNum(IF v.v THEN Scale ELSE 0))
      [] v.t = "float" -> Returns(FloatNum(v.v))
      [] OTHER -> Raises("TypeError")

\* no value is taken for an empty parameter
never_falsy(v) == FALSE

\* `not v`
falsy(v) ==
    CASE v.t \in {"str", "list", "tuple", "dict"} -> v.v = <<>>
      [] v.t = "none" -> TRUE
      [] v.t = "bool" -> ~v.v
      [] OTHER -> v.v = 0

\* int(hashlib.md5(s.encode('utf-8')).hexdigest(), base=16) modulo Md5Mod
md5(s) ==
    CASE
         s = <<"S", "u", "b", "j", "e", "c", "t">> -> 4523792    \* md5("Subject")
      [] s = <<"Y", "e", "a", "r">> -> 4752882    \* md5("Year")
      [] s = <<"A", "c", "t", "r", "e", "s", "s">> -> 12825348    \* md5("Actress")
      [] s = <<"C", "o", "m", "e", "d", "y">> -> 16540686    \* md5("Comedy")
      [] s = <<>> -> 16269950    \* md5("")

\* the last line of _any_hash: the digest of str(v) as an int
digest_of(s) == Number("int", md5(s) * Scale, TRUE)

\* the boolean words, else the digest of the stripped str
bool_or_digest(s, low) ==
    IF low \in {<<"t", "r", "u", "e">>, <<"y", "e", "s">>} THEN Returns(IntNum(1))
    ELSE IF low \in {<<"f", "a", "l", "s", "e">>, <<"n", "o">>} THEN Returns(IntNum(0))
    ELSE Returns(digest_of(s))

canonical_str(s) == bool_or_digest(s, lower(s))

\* the innermost except block of _any_hash and the statement after it
canonical(v) ==
    IF falsy(v) THEN Returns(IntNum(0))
    ELSE IF v.t = "str" THEN canonical_str(strip(v.v))
    ELSE Raises("NameError")    \* tuple, dict, list: json is not imported

\* `except ValueError` around float(v)
after_float(v, as_float) == IF as_float.exc = "ValueError" THEN canonical(v) ELSE as_float

\* `except ValueError` around int(v)
after_int(v, as_int) ==
    IF as_int.exc = "ValueError" THEN after_float(v, py_float(v)) ELSE as_int

\* every str that is not an int literal taken for an empty parameter
int_or_zero(v) == IF py_int(v).exc = NoError THEN py_int(v) ELSE Returns(IntNum(0))

\* TagsHasher._any_hash
any_hash(v) == after_int(v, py_int(v))

----------------------------------------------------------------------------
(* TagsHasher.encode *)

Sgn(n) == IF n > 0 THEN 1 ELSE IF n < 0 THEN -1 ELSE 0
Abs(n) == IF n < 0 THEN -n ELSE n

\* np.sign(h): a digest is a positive int
np_sign(x) == IF x.digest THEN 1 ELSE Sgn(x.q)

\* Python x % m for m # 0: the result has the sign of m
py_mod(x, m) ==
    LET r == x.q % (Abs(m) * Scale)
    IN Number(x.kind, IF m > 0 \/ r = 0 THEN r ELSE r - Abs(m) * Scale, FALSE)

\* col = h % self.n_dim
column(h, n_dim) == py_mod(h, n_dim)

\* the reduction skipped: the value is used as it is
no_reduce(val, max_val) == Number(val.kind, val.q, FALSE)

\* the remainder keeps the sign of val, as C's % does
c_reduce(val, max_val) ==
    Number(val.kind, Sgn(val.q) * (Abs(val.q) % (Abs(max_val) * Scale)), FALSE)

\* val = val % self.max_val
reduce(val, max_val) == py_mod(val, max_val)

\* val = sign_h * sign_v * val
signed(sign_h, sign_v, val) == sign_h * sign_v * val.q

\* table[col] = val: a later pair replaces what the dimension held
overwrite(table, col, val) == [table EXCEPT ![col] = val]

\* table[col] += val
accumulate(table, col, val) == [table EXCEPT ![col] = @ + val]

\* np.ones in place of np.zeros
ones(n_dim) == [j \in 0..(n_dim - 1) |-> Scale]

\* np.zeros(self.n_dim)
zeros(n_dim) == [j \in 0..(n_dim - 1) |-> 0]

\* sum of the data whose column is c
RECURSIVE column_sum(_, _, _)
column_sum(data, idxs, c) ==
    IF data = <<>> THEN 0
    ELSE (IF Head(idxs) = c THEN Head(data) ELSE 0) + column_sum(Tail(data), Tail(idxs), c)

\* a matrix built by assignment: of the entries of one column the last one stays
last_entry_matrix(data, idxs, n_dim) ==
    [kind |-> "csr", shape |-> <<1, n_dim>>,
     entries |-> [c \in Range(idxs) |->
                    data[CHOOSE i \in DOMAIN idxs :
                            idxs[i] = c /\ \A k \in DOMAIN idxs : idxs[k] = c => k <= i]]]

\* csr_matrix((data, zip(*idxs)), shape=(1, self.n_dim)): entries given for
\* the same position are summed
csr_matrix(data, idxs, n_dim) ==
    [kind |-> "csr", shape |-> <<1, n_dim>>,
     entries |-> [c \in Range(idxs) |-> column_sum(data, idxs, c)]]

ndarray(table) == [kind |-> "ndarray", table |-> table]

\* table[col]: an index that is not an int raises
place(col, val) ==
    IF col.kind = "float" THEN Raises("IndexError")
    ELSE Returns([col |-> col.q \div Scale, val |-> val])

\* lines 968-974 for the name hash h and the result of _any_hash(v)
hash_value(h, val, self) ==
    IF val.exc # NoError THEN Raises(val.exc)
    ELSE IF self.max_val = 0 THEN Raises("ZeroDivisionError")
    ELSE place(column(h, self.n_dim),
               signed(np_sign(h), np_sign(val.val), reduce(val.val, self.max_val)))

\* lines 965-967 for the result of _any_hash(k)
hash_name(h, v, self) ==
    IF h.exc # NoError THEN Raises(h.exc)
    ELSE IF self.n_dim = 0 THEN Raises("ZeroDivisionError")
    ELSE hash_value(h.val, any_hash(v), self)

\* one pass of `for k, v in doc.tags.items()`: the column and the signed
\* value of the pair, or the exception raised
hash_pair(k, v, self) == hash_name(any_hash(k), v, self)

RECURSIVE encode_tags(_, _, _, _)

\* the appends and the update of the table for the hashed pair r
add_pair(tags, i, acc, self, r) ==
    IF r.exc # NoError THEN [exc |-> r.exc, acc |-> acc]
    ELSE encode_tags(tags, i + 1,
                     [idxs |-> Append(acc.idxs, r.val.col),
                      data |-> Append(acc.data, r.val.val),
                      table |-> accumulate(acc.table, r.val.col, r.val.val)],
                     self)

\* `for k, v in doc.tags.items()` from pair i on
encode_tags(tags, i, acc, self) ==
    IF i > Len(tags) THEN [exc |-> NoError, acc |-> acc]
    ELSE add_pair(tags, i, acc, self, hash_pair(tags[i].k, tags[i].v, self))

\* `if self.sparse: doc.embedding = csr_matrix(...) else: doc.embedding = table`
set_embedding(doc, self, r) ==
    IF r.exc # NoError THEN [exc |-> r.exc, doc |-> doc]
    ELSE [exc |-> NoError,
          doc |-> [doc EXCEPT !.embedding =
                      IF self.sparse
                      THEN csr_matrix(r.acc.data, r.acc.idxs, self.n_dim)
                      ELSE ndarray(r.acc.table)]]

\* the body without `if doc.tags:`
encode_untagged(doc, self) ==
    IF self.n_dim < 0 THEN [exc |-> "ValueError", doc |-> doc]
    ELSE set_embedding(doc, self,
                       encode_tags(doc.tags, 1,
                                   [idxs |-> <<>>, data |-> <<>>, table |-> zeros(self.n_dim)],
                                   self))

\* body of `for idx, doc in enumerate(docs)`
encode_doc(doc, self) ==
    IF doc.tags = <<>> THEN [exc |-> NoError, doc |-> doc]
    ELSE IF self.n_dim < 0 THEN [exc |-> "ValueError", doc |-> doc]
    ELSE set_embedding(doc, self,
                       encode_tags(doc.tags, 1,
                                   [idxs |-> <<>>, data |-> <<>>, table |-> zeros(self.n_dim)],
                                   self))

RECURSIVE encode(_, _, _, _)

next_doc(array, batch, i, self, r) ==
    IF r.exc # NoError THEN [exc |-> r.exc, da |-> array]
    ELSE encode([array EXCEPT ![batch[i]] = r.doc], batch, i + 1, self)

\* TagsHasher.encode on the Documents array[batch[1]], array[batch[2]], ...
encode(array, batch, i, self) ==
    IF i > Len(batch) THEN [exc |-> NoError, da |-> array]
    ELSE next_doc(array, batch, i, self, encode_doc(array[batch[i]], self))

----------------------------------------------------------------------------
(* Specification of the hasher *)

MaxTags == 2        \* attributes of one Document

\* Document(tags=...) as loaded from the CSV or built as a filter
NoEmbedding == [kind |-> "none"]

TaggedDoc(tags) == [tags |-> tags, embedding |-> NoEmbedding]

Names == {PyStr(<<"S", "u", "b", "j", "e", "c", "t">>), PyStr(<<"Y", "e", "a", "r">>),
          PyStr(<<"1", "6">>)}

\* 1987, -5, "Comedy", "2.5"
Values == {PyInt(1987), PyInt(-5), PyStr(<<"C", "o", "m", "e", "d", "y">>),
           PyStr(<<"2", ".", "5">>)}

\* TagsHasher(), TagsHasher(n_dim=4, max_val=16), each dense or sparse
Configs ==
    {[n_dim |-> c[1], max_val |-> c[2], sparse |-> b] :
        c \in {<<256, 65536>>, <<4, 16>>}, b \in BOOLEAN}

\* dicts of at most n attributes, in insertion order
TagMaps(n) ==
    UNION {{[i \in DOMAIN ks |-> [k |-> ks[i], v |-> vs[i]]] : vs \in [DOMAIN ks -> Values]}
           : ks \in InjSeqs(Names, n)}

\* the same dict built in another insertion order
Reordered(tags) ==
    {[i \in DOMAIN tags |-> tags[p[i]]] : p \in {q \in InjSeqs(DOMAIN tags, Len(tags)) : Len(q) = Len(tags)}}

MatcherIdle ==
    /\ db = <<>>
    /\ last_put = <<>>
    /\ docs = <<>>
    /\ stage = "idle"
    /\ raised = NoError
    /\ rank_in = <<>>
    /\ env = 0

\* the state a call of encode leaves: the Documents and the exception, if any
encode_returns(r) ==
    /\ da' = r.da
    /\ enc_raised' = r.exc

\* th.encode(docs) for a DocumentArray made of Documents of da
TagsHasher_encode(batch) ==
    /\ encode_returns(encode(da, batch, 1, th))
    /\ enc_docs' = batch
    /\ UNCHANGED <<th, matcherVars, indexerVars, workerVars, flowVars>>

Batches == InjSeqs(DOMAIN da, Len(da)) \ {<<>>}

InitHasher ==
    /\ th \in Configs
    /\ \E a \in TagMaps(MaxTags) : \E b \in Reordered(a) :
          da = <<TaggedDoc(a), TaggedDoc(b)>>
    /\ enc_raised = NoError
    /\ enc_docs = <<>>
    /\ MatcherIdle
    /\ IndexerIdle
    /\ WorkersIdle
    /\ FlowIdle

NextHasher == \E batch \in Batches : TagsHasher_encode(batch)

SpecHasher == InitHasher /\ [][NextHasher]_vars

\* attribute values of every type _any_hash has a branch for
AnyValues ==
    {PyInt(1987), PyInt(0), PyInt(-5), PyFloat(37), PyBool(TRUE), PyBool(FALSE),
     PyStr(<<"C", "o", "m", "e", "d", "y">>), PyStr(<<"1", "9", "8", "7">>), PyStr(<<" ", "1", "9", "8", "7", " ">>),
     PyStr(<<"2", ".", "5">>), PyStr(<<>>), PyStr(<<" ">>), PyStr(<<"Y", "e", "s">>),
     PyStr(<<"n", "o">>), PyNone, PyList(<<>>), PyList(<<1, 2>>), PyTuple(<<1, 2>>),
     PyDict(<<>>), PyDict(<<<<"a", 1>>>>)}

\* one Document with one attribute
InitValues ==
    /\ th \in Configs
    /\ \E k \in Names : \E v \in AnyValues : da = <<TaggedDoc(<<[k |-> k, v |-> v]>>)>>
    /\ enc_raised = NoError
    /\ enc_docs = <<>>
    /\ MatcherIdle
    /\ IndexerIdle
    /\ WorkersIdle
    /\ FlowIdle

SpecValues == InitValues /\ [][NextHasher]_vars

\* attribute values that _any_hash and `% max_val` bring to 0: 0, 0.0, False,
\* '', 'false', ' No ', max_val, -2 * max_val
ZeroValues(max_val) ==
    {PyInt(0), PyFloat(0), PyBool(FALSE), PyStr(<<>>), PyStr(<<"f", "a", "l", "s", "e">>),
     PyStr(<<" ", "N", "o", " ">>), PyInt(max_val), PyInt(-2 * max_val)}

\* tags with one such attribute, before or after the others
WithZero(tags, pair) == {<<pair>> \o tags, tags \o <<pair>>}

\* two Documents: tags with an attribute of value 0, and the same tags
\* without it
InitZeros ==
    /\ th \in Configs
    /\ \E k \in Names : \E v \in ZeroValues(th.max_val) :
          \E tags \in TagMaps(MaxTags - 1) :
              /\ \A i \in DOMAIN tags : tags[i].k # k
              /\ \E with \in WithZero(tags, [k |-> k, v |-> v]) :
                    da = <<TaggedDoc(with), TaggedDoc(tags)>>
    /\ enc_raised = NoError
    /\ enc_docs = <<>>
    /\ MatcherIdle
    /\ IndexerIdle
    /\ WorkersIdle
    /\ FlowIdle

SpecZeros == InitZeros /\ [][NextHasher]_vars

\* str(n) of an int: its decimal digits after the sign
RECURSIVE digits_of(_)
digits_of(n) ==
    IF n < 10 THEN <<Digits[n + 1]>>
    ELSE Append(digits_of(n \div 10), Digits[(n % 10) + 1])

py_str(n) == IF n < 0 THEN <<"-">> \o digits_of(-n) ELSE digits_of(n)

\* attribute values that are ints, and the ways a CSV cell or a filter can
\* write the same number as a str
Numerals == {1987, -5, 0, 7, 16, 40, 65543, -65536}

Spellings(n) ==
    {py_str(n), <<" ">> \o py_str(n) \o <<" ">>, <<"\t">> \o py_str(n), py_str(n) \o <<"\n">>}

\* two Documents with one attribute: the number, and a spelling of it
InitNumerals ==
    /\ th \in Configs
    /\ \E k \in Names : \E n \in Numerals : \E sp \in Spellings(n) :
          da = <<TaggedDoc(<<[k |-> k, v |-> PyInt(n)]>>),
                 TaggedDoc(<<[k |-> k, v |-> PyStr(sp)]>>)>>
    /\ enc_raised = NoError
    /\ enc_docs = <<>>
    /\ MatcherIdle
    /\ IndexerIdle
    /\ WorkersIdle
    /\ FlowIdle

SpecNumerals == InitNumerals /\ [][NextHasher]_vars

\* attribute names: words, the empty name, a blank name, numbers, a boolean word
SignNames ==
    {PyStr(<<"S", "u", "b", "j", "e", "c", "t">>), PyStr(<<"Y", "e", "a", "r">>),
     PyStr(<<"A", "c", "t", "r", "e", "s", "s">>), PyStr(<<>>), PyStr(<<" ">>),
     PyStr(<<"1", "6">>), PyStr(<<"-", "5">>), PyStr(<<"Y", "e", "s">>)}

\* attribute values: ints and floats of either sign, multiples of max_val,
\* bools, and strs that are hashed, parsed or taken for a boolean
SignValues ==
    {PyInt(1987), PyInt(-5), PyInt(0), PyInt(16), PyInt(65536), PyInt(-65536),
     PyFloat(25), PyFloat(-25), PyBool(TRUE),
     PyStr(<<"C", "o", "m", "e", "d", "y">>), PyStr(<<"-", "5">>), PyStr(<<"2", ".", "5">>),
     PyStr(<<>>), PyStr(<<"n", "o">>)}

\* one Document with one attribute
InitSigns ==
    /\ th \in Configs
    /\ \E k \in SignNames : \E v \in SignValues : da = <<TaggedDoc(<<[k |-> k, v |-> v]>>)>>
    /\ enc_raised = NoError
    /\ enc_docs = <<>>
    /\ MatcherIdle
    /\ IndexerIdle
    /\ WorkersIdle
    /\ FlowIdle

SpecSigns == InitSigns /\ [][NextHasher]_vars

\* no TagsHasher has been constructed
NoHasher == [constructed |-> FALSE]

\* TagsHasher.__init__: the arguments are stored as they are given
TagsHasher_init(n_dim, max_val, sparse) ==
    /\ th = NoHasher
    /\ th' = [n_dim |-> n_dim, max_val |-> max_val, sparse |-> sparse]
    /\ UNCHANGED <<da, enc_raised, enc_docs, matcherVars, indexerVars, workerVars, flowVars>>

\* n_dim and max_val a caller can pass: the defaults, a small table, zero
\* and a negative number
NDims == {256, 4, 0, -4}
MaxVals == {65536, 16, 0, -16}

SubjectComedy ==
    <<[k |-> PyStr(<<"S", "u", "b", "j", "e", "c", "t">>), v |-> PyStr(<<"C", "o", "m", "e", "d", "y">>)]>>
Year1987 == <<[k |-> PyStr(<<"Y", "e", "a", "r">>), v |-> PyInt(1987)]>>

\* filters = [{"Subject": "Comedy"}, {"Year": 1987}, {"Subject": "Comedy", "Year": 1987}]
filters == {SubjectComedy, Year1987, SubjectComedy \o Year1987}

\* an embedding a Document got from an earlier executor
PriorEmbedding == ndarray([j \in 0..3 |-> IF j = 1 THEN 7 * Scale ELSE 0])

\* Documents of a request: the filters, a Document without tags, and a
\* Document without tags that already has an embedding
FilterDocs ==
    {TaggedDoc(f) : f \in filters \cup {<<>>}}
        \cup {[tags |-> <<>>, embedding |-> PriorEmbedding]}

InitFilters ==
    /\ th = NoHasher
    /\ \E a, b \in FilterDocs : da = <<a, b>>
    /\ enc_raised = NoError
    /\ enc_docs = <<>>
    /\ MatcherIdle
    /\ IndexerIdle
    /\ WorkersIdle
    /\ FlowIdle

NextFilters ==
    \/ \E n \in NDims, m \in MaxVals, sp \in BOOLEAN : TagsHasher_init(n, m, sp)
    \/ \E batch \in Batches : th # NoHasher /\ TagsHasher_encode(batch)

SpecFilters == InitFilters /\ [][NextFilters]_vars

----------------------------------------------------------------------------
(* CharEmbed and Indexer of the fuzzy-grep notebook *)

MaxIndexed == 4     \* Documents Indexer._docs holds at most

\* CharEmbed.offset and CharEmbed.dim
offset == 32
dim == 127 - offset + 1

\* an embedding entry is kept in twelfths, so that the mean over a text of
\* one to four characters is a whole number
EmbScale == 12

\* row r of char_embd = np.eye(dim) * 1
char_embd(r) == [j \in 0..(dim - 1) |-> IF j = r THEN 1 ELSE 0]

\* one element of r_emb; a character is its code point ord(c)
r_emb(c) == IF offset <= c /\ c <= 127 THEN c - offset ELSE dim - 1

\* self.char_embd[r_emb, :].mean(axis=0)
mean_pool(text) ==
    [j \in 0..(dim - 1) |->
        (EmbScale \div Len(text)) * SeqSum([i \in DOMAIN text |-> char_embd(r_emb(text[i]))[j]])]

\* a Document(text=...) of the fuzzy-grep flow
TextDoc(id, text, embedding) ==
    [id |-> id, text |-> text, embedding |-> embedding, matches |-> <<>>]

\* the loop body of CharEmbed.foo
embed_doc(d) == [d EXCEPT !.embedding = mean_pool(d.text)]

\* Document(text=t.strip()) for lines of the indexed file, as they leave
\* CharEmbed: "np", "jina", "foo"
LineDocs ==
    {embed_doc(TextDoc("line1", <<110, 112>>, NoEmbedding)),
     embed_doc(TextDoc("line2", <<106, 105, 110, 97>>, NoEmbedding)),
     embed_doc(TextDoc("line3", <<102, 111, 111>>, NoEmbedding))}

\* f.post('/index', ...): the Documents of one request
GrepRequests == SeqsUpTo(LineDocs, MaxBatch) \ {<<>>}

\* c.post('/search', Document(text=...)): "jn" and "fo", as they leave CharEmbed
GrepQueries ==
    {embed_doc(TextDoc("query1", <<106, 110>>, NoEmbedding)),
     embed_doc(TextDoc("query2", <<102, 111>>, NoEmbedding))}

\* the Indexer instances of one process
Instances == {1, 2}

\* self._docs: no instance assigns _docs, so the lookup on any instance
\* finds the attribute of the class
self_docs(self) == _docs

\* DocumentArray.extend of an in-memory DocumentArray: the values are
\* appended in order
extend(array, values) == array \o values

\* the square of the euclidean distance of two embeddings (in units of
\* 1 / EmbScale^2); it orders as the distance does
RECURSIVE sq_dist(_, _, _)
sq_dist(x, y, j) ==
    IF j < 0 THEN 0
    ELSE (x[j] - y[j]) * (x[j] - y[j]) + sq_dist(x, y, j - 1)

\* the copy of a candidate that match stores on the query, with its score
matched(d, q) == [id |-> d.id, text |-> d.text, score |-> sq_dist(q.embedding, d.embedding, dim - 1)]

top(ms, limit) == SubSeq(ms, 1, IF Len(ms) < limit THEN Len(ms) ELSE limit)

\* docs.match(candidates, metric='euclidean', limit=20) for one query
match(q, candidates, limit) ==
    [q EXCEPT !.matches = top(sorted([i \in DOMAIN candidates |-> matched(candidates[i], q)]), limit)]

\* CharEmbed.foo, on every request of the flow
CharEmbed_foo ==
    /\ \E i \in DOMAIN grep_req.docs : grep_req.docs[i].embedding = NoEmbedding
    /\ grep_req' = [grep_req EXCEPT !.docs = [i \in DOMAIN @ |-> embed_doc(@[i])]]
    /\ UNCHANGED <<_docs, added_by, matcherVars, hasherVars, workerVars, flowVars>>

\* Indexer.foo on /index, called on the instance self
Indexer_foo(self, batch) ==
    /\ Len(_docs) + Len(batch) <= MaxIndexed
    /\ _docs' = extend(self_docs(self), batch)
    /\ added_by' = added_by \o [i \in DOMAIN batch |-> self]
    /\ UNCHANGED <<grep_req, matcherVars, hasherVars, workerVars, flowVars>>

\* Indexer.bar on /search, called on the instance self
Indexer_bar(self, q) ==
    /\ grep_req' = [docs |-> <<match(q, self_docs(self), 20)>>, via |-> self]
    /\ UNCHANGED <<_docs, added_by, matcherVars, hasherVars, workerVars, flowVars>>

InitIndexer ==
    /\ _docs = <<>>
    /\ added_by = <<>>
    /\ grep_req = NoRequest
    /\ MatcherIdle
    /\ HasherIdle
    /\ WorkersIdle
    /\ FlowIdle

NextIndexer ==
    \/ \E self \in Instances, batch \in GrepRequests : Indexer_foo(self, batch)
    \/ \E self \in Instances, q \in GrepQueries : Indexer_bar(self, q)

SpecIndexer == InitIndexer /\ [][NextIndexer]_vars

\* code points of the characters of a request: tab, the last control
\* character, space, A, a, ~, DEL, the first code point above 127, e-acute,
\* the euro sign
CodePoints == {9, 31, 32, 65, 97, 126, 127, 128, 233, 8364}

MaxText == 2        \* characters of a text given to CharEmbed

\* the requests that reach CharEmbed: one Document with a non-empty text
InitChars ==
    /\ grep_req \in {[docs |-> <<TextDoc("doc1", t, NoEmbedding)>>, via |-> 0] :
                        t \in SeqsUpTo(CodePoints, MaxText) \ {<<>>}}
    /\ _docs = <<>>
    /\ added_by = <<>>
    /\ MatcherIdle
    /\ HasherIdle
    /\ WorkersIdle
    /\ FlowIdle

SpecChars == InitChars /\ [][CharEmbed_foo]_vars

\* C18: no two Documents of the Indexer's collection have the same id.
C18_UniqueIds ==
    \A i, j \in DOMAIN _docs : i # j => _docs[i].id # _docs[j].id

----------------------------------------------------------------------------
(* The index flow and the query flow of the image notebook, executor by executor *)

\* an image of the index request: its root Document, before the segmenter
ImageDoc(p) == [id |-> p, parent_id |-> None, score |-> NoScore, content |-> p, chunks |-> <<>>]

\* the root Document as root_indexer receives it from the gateway
as_root(d) == RootDoc(d.id, d.content)

\* doc.chunks.append(Document(tensor=crop)): ChunkArray.append sets the
\* parent_id of the new chunk to the id of doc
chunks_append(doc, c) ==
    [doc EXCEPT !.chunks = Append(@, Document(c, doc.id, NoScore, c))]

\* the detections the model predicts in an image with conf at or above the
\* threshold: some of the crops of that image, in the order of the prediction
Detections(p) ==
    IF p = "parentA" THEN {<<>>, <<"chunk1">>, <<"chunk2">>, <<"chunk1", "chunk2">>}
    ELSE {<<>>, <<"chunk3">>}

\* `for det in prediction` for one doc
RECURSIVE segment_doc(_, _)
segment_doc(doc, dets) ==
    IF dets = <<>> THEN doc
    ELSE segment_doc(chunks_append(doc, Head(dets)), Tail(dets))

\* index requests of the flow: images not indexed before, each once
FlowRequests ==
    {b \in InjSeqs(ParentIds, MaxBatch) :
        b # <<>> /\ \A i \in DOMAIN b : \A k \in DOMAIN _index : _index[k].id # b[i]}

\* wait_both has the answers of both branches
Completed(f) == f.chunks = "indexed" /\ f.roots \in {"stored", "failed"}

\* index_flow.post(on='/index', inputs=input_docs): the gateway hands the
\* request to the segmenter and to root_indexer
index_flow_post(b) ==
    /\ flow = NoFlow \/ Completed(flow)
    /\ stage \in {"idle", "resolved", "failed"}
    /\ flow' = [docs |-> [i \in DOMAIN b |-> ImageDoc(b[i])], chunks |-> "posted", roots |-> "posted"]
    /\ UNCHANGED <<_index, matcherVars, hasherVars, indexerVars, workerVars>>

\* segmenter: YoloV5Segmenter.segment
YoloV5Segmenter_segment(dets) ==
    /\ flow.chunks = "posted"
    /\ flow' = [flow EXCEPT !.docs = [i \in DOMAIN @ |-> segment_doc(@[i], dets[@[i].id])],
                            !.chunks = "segmented"]
    /\ UNCHANGED <<_index, matcherVars, hasherVars, indexerVars, workerVars>>

\* chunks_indexer on /index: SimpleIndexer.index (the encoder before it sets
\* the embeddings of the chunks and leaves ids and parent_ids alone)
SimpleIndexer_index ==
    /\ flow.chunks = "segmented"
    /\ _index' = IF flow.docs # <<>> THEN extend(_index, flow.docs) ELSE _index
    /\ flow' = [flow EXCEPT !.chunks = "indexed"]
    /\ UNCHANGED <<matcherVars, hasherVars, indexerVars, workerVars>>

\* root_indexer on /index, on the branch that needs the gateway
root_indexer_index ==
    /\ flow.roots = "posted"
    /\ LET batch == [i \in DOMAIN flow.docs |-> as_root(flow.docs[i])]
       IN /\ db' = transaction_exit(db, put_all(db, batch), NoError)
          /\ last_put' = puts_recorded(last_put, batch)
    /\ env' = with_handler(env, NoError)
    /\ flow' = [flow EXCEPT !.roots = "stored"]
    /\ UNCHANGED <<_index, docs, stage, raised, rank_in, hasherVars, indexerVars, workerVars>>

\* root_indexer on /index when put number i raises lmdb.MapFullError
root_indexer_raises(i) ==
    /\ flow.roots = "posted"
    /\ i \in DOMAIN flow.docs
    /\ LET batch == [k \in DOMAIN flow.docs |-> as_root(flow.docs[k])]
       IN db' = transaction_exit(db, put_all(db, SubSeq(batch, 1, i - 1)), "MapFullError")
    /\ env' = with_handler(env, "MapFullError")
    /\ raised' = "MapFullError"
    /\ flow' = [flow EXCEPT !.roots = "failed"]
    /\ UNCHANGED <<_index, last_put, docs, stage, rank_in, hasherVars, indexerVars, workerVars>>

\* self._index['@c']: the chunks of the indexed roots, in order
RECURSIVE chunks_of(_)
chunks_of(index) ==
    IF index = <<>> THEN <<>> ELSE Head(index).chunks \o chunks_of(Tail(index))

\* every candidate gets the distance of the query on the Record of the index
scored_in_place(index, dist) ==
    [i \in DOMAIN index |->
        [index[i] EXCEPT !.chunks = [k \in DOMAIN index[i].chunks |->
            [index[i].chunks[k] EXCEPT !.score = dist[index[i].chunks[k].id]]]]]

\* the index after docs.match(self._index['@c']): the selector reads the
\* chunks out of the sqlite table, and match scores copies of them
after_match(index, dist) == index

\* docs.match(candidates) for one query: copies of the nearest candidates
\* (limit=20), each with its cosine distance dist, nearest first
chunk_matches(candidates, dist) ==
    top(sorted([i \in DOMAIN candidates |-> [candidates[i] EXCEPT !.score = dist[candidates[i].id]]]), 20)

\* chunks_indexer on /search: SimpleIndexer.search for a request of one
\* query, whose embedding lies at distance dist[c] of chunk c
SimpleIndexer_search_one(dist) ==
    /\ stage \in {"idle", "resolved", "failed"}
    /\ flow = NoFlow \/ Completed(flow)
    /\ docs' = <<QueryDoc(chunk_matches(chunks_of(_index), dist))>>
    /\ _index' = after_match(_index, dist)
    /\ stage' = "matched"
    /\ rank_in' = <<>>
    /\ UNCHANGED <<db, last_put, raised, env, flow, hasherVars, indexerVars, workerVars>>

InitFlows ==
    /\ db = <<>>
    /\ last_put = <<>>
    /\ docs = <<>>
    /\ stage = "idle"
    /\ raised = NoError
    /\ rank_in = <<>>
    /\ env = 0
    /\ HasherIdle
    /\ IndexerIdle
    /\ WorkersIdle
    /\ FlowIdle

NextFlows ==
    \/ \E b \in FlowRequests : index_flow_post(b)
    \/ \E dets \in [ParentIds -> UNION {Detections(p) : p \in ParentIds}] :
          /\ \A p \in ParentIds : dets[p] \in Detections(p)
          /\ YoloV5Segmenter_segment(dets)
    \/ SimpleIndexer_index
    \/ root_indexer_index
    \/ \E i \in 1..MaxBatch : root_indexer_raises(i)
    \/ \E dist \in [ChunkIds -> Scores] : SimpleIndexer_search_one(dist)
    \/ SimpleRanker_rank
    \/ LMDBStorage_search

SpecFlows == InitFlows /\ [][NextFlows]_vars

----------------------------------------------------------------------------
(* SimpleIndexer of the doc2query notebook *)

MaxParents == 12    \* indexed Documents whose chunks one query can match

\* an indexed Document with its chunks, and one of its chunks as docs.match
\* attaches it to a query: a copy with the normalized cosine score, in
\* hundredths
PassageDoc(p) ==
    [id |-> p, parent_id |-> None, score |-> NoScore, content |-> p,
     chunks |-> [j \in 1..2 |-> Document(<<p, j>>, p, NoScore, <<p, j>>)]]

PassageMatch(p, j, s) == Document(<<p, j>>, p, s, <<p, j>>)

\* the Documents SimpleIndexer.index has stored
Passages == [p \in 1..MaxParents |-> PassageDoc(p)]

\* self._docs[k]
by_id(index, k) == index[CHOOSE i \in DOMAIN index : index[i].id = k]

\* match_similarity[m.parent_id] += m.scores['cosine'].value, for the
\* matches from position i on; a defaultdict keeps its keys in the order of
\* their first insertion
RECURSIVE match_similarity(_, _, _)
match_similarity(ms, i, items) ==
    IF i > Len(ms) THEN items
    ELSE LET at == {k \in DOMAIN items : items[k].key = ms[i].parent_id}
         IN match_similarity(ms, i + 1,
                IF at = {} THEN Append(items, [key |-> ms[i].parent_id, value |-> ms[i].score])
                ELSE [k \in DOMAIN items |->
                         IF k \in at THEN [items[k] EXCEPT !.value = @ + ms[i].score]
                         ELSE items[k]])

\* sorted without reverse=True: smallest value first
RECURSIVE insert_ascending(_, _)
insert_ascending(s, item) ==
    IF s = <<>> THEN <<item>>
    ELSE IF Head(s).value <= item.value
         THEN <<Head(s)>> \o insert_ascending(Tail(s), item)
         ELSE <<item>> \o s

\* sorted(..., key=lambda v: v[1], reverse=True): largest value first, items
\* of equal value in their original order
RECURSIVE insert_descending(_, _)
insert_descending(s, item) ==
    IF s = <<>> THEN <<item>>
    ELSE IF Head(s).value >= item.value
         THEN <<Head(s)>> \o insert_descending(Tail(s), item)
         ELSE <<item>> \o s

RECURSIVE sorted_similarities(_)
sorted_similarities(items) ==
    IF items = <<>> THEN <<>>
    ELSE insert_descending(sorted_similarities(SubSeq(items, 1, Len(items) - 1)),
                           items[Len(items)])

\* `for k, _ in sorted_similarities`: Document(self._docs[k], copy=True) is
\* appended, and the loop breaks once len(d.matches) >= 10
RECURSIVE collect(_, _, _)
collect(index, items, matches) ==
    IF items = <<>> THEN matches
    ELSE LET longer == Append(matches, by_id(index, Head(items).key))
         IN IF Len(longer) >= 10 THEN longer
            ELSE collect(index, Tail(items), longer)

\* the body of `for d in docs`
search_doc(index, d) ==
    [matches |-> collect(index, sorted_similarities(match_similarity(d.matches, 1, <<>>)), clear(d.matches)),
     embedding |-> None]

\* SimpleIndexer.search, from the matches docs.match has attached
doc2query_search ==
    /\ stage = "matched"
    /\ rank_in' = docs
    /\ docs' = [i \in DOMAIN docs |-> search_doc(_index, docs[i])]
    /\ stage' = "searched"
    /\ UNCHANGED <<db, last_put, raised, env, _index, flow, hasherVars, indexerVars, workerVars>>

\* scores of the matched chunks: chunk 1 of each of the first n Documents,
\* and chunk 2 of every third, nearest first
ChunkScore(p, j, a, b) == IF j = 1 THEN ((p * a + b) % 7) * 10 ELSE ((p * b + a) % 7) * 5

RECURSIVE MatchedChunks(_, _, _)
MatchedChunks(n, a, b) ==
    IF n = 0 THEN <<>>
    ELSE MatchedChunks(n - 1, a, b)
         \o <<PassageMatch(n, 1, ChunkScore(n, 1, a, b))>>
         \o (IF n % 3 = 0 THEN <<PassageMatch(n, 2, ChunkScore(n, 2, a, b))>> ELSE <<>>)

RECURSIVE nearest_first(_)
nearest_first(ms) ==
    IF ms = <<>> THEN <<>>
    ELSE LET rest == nearest_first(SubSeq(ms, 1, Len(ms) - 1))
             m == ms[Len(ms)]
             before == {k \in DOMAIN rest : rest[k].score >= m.score}
         IN SubSeq(rest, 1, Cardinality(before)) \o <<m>> \o SubSeq(rest, Cardinality(before) + 1, Len(rest))

InitDoc2Query ==
    /\ \E n \in 0..MaxParents, a \in 0..6, b \in 0..6 :
          docs = <<[matches |-> nearest_first(MatchedChunks(n, a, b)), embedding |-> "ndarray"]>>
    /\ _index = Passages
    /\ flow = NoFlow
    /\ stage = "matched"
    /\ db = <<>>
    /\ last_put = <<>>
    /\ raised = NoError
    /\ rank_in = <<>>
    /\ env = 0
    /\ HasherIdle
    /\ IndexerIdle
    /\ WorkersIdle

SpecDoc2Query == InitDoc2Query /\ [][doc2query_search]_vars

----------------------------------------------------------------------------
(* Invocations of rank and encode running side by side, statement by statement *)

Workers == {1, 2}

\* the local variables of rank (parents_scores, the position of `for m`,
\* matches) and of encode (idxs, data, table, the position of `for k, v`)
Locals(ps, ms, idxs, data, table, at) ==
    [parents_scores |-> ps, matches |-> ms,
     idxs |-> idxs, data |-> data, table |-> table, at |-> at]

NoLocals == Locals(<<>>, <<>>, <<>>, <<>>, <<>>, 0)

\* the local variables kept on the executor instance: one set for all invocations
on_instance(w) == 1

\* the frame that holds the local variables of invocation w: every call of
\* a Python function has its own
frame(w) == w

\* an invocation: the Record it was given, the Record as it is now, the
\* statement it is at and the exception that ended it
Call(op, doc) == [op |-> op, given |-> doc, doc |-> doc, pc |-> "begin", exc |-> NoError]

\* parents_scores[key].append(score) on the defaultdict, kept as the list
\* of its items in insertion order
append_score(ps, key, score) ==
    IF \E i \in DOMAIN ps : ps[i].key = key
    THEN [i \in DOMAIN ps |->
            IF ps[i].key = key THEN [ps[i] EXCEPT !.scores = Append(@, score)] ELSE ps[i]]
    ELSE Append(ps, [key |-> key, scores |-> <<score>>])

\* `for match_parent_id, scores in parents_scores.items(): matches.append(...)`
items_matches(ps) == [i \in DOMAIN ps |-> NewMatch(ps[i].key, min(ps[i].scores))]

\* parents_scores = defaultdict(list)
rank_begin(w) ==
    /\ calls[w].op = "rank" /\ calls[w].pc = "begin"
    /\ frames' = [frames EXCEPT ![frame(w)] = Locals(<<>>, <<>>, <<>>, <<>>, <<>>, 1)]
    /\ calls' = [calls EXCEPT ![w].pc = "group"]
    /\ UNCHANGED <<matcherVars, hasherVars, indexerVars, flowVars>>

\* one pass of `for m in doc.matches`
rank_append(w) ==
    /\ calls[w].op = "rank" /\ calls[w].pc = "group"
    /\ frames[frame(w)].at \in DOMAIN calls[w].doc.matches
    /\ frames' = [frames EXCEPT
                    ![frame(w)].parents_scores =
                        append_score(@, calls[w].doc.matches[frames[frame(w)].at].parent_id,
                                     calls[w].doc.matches[frames[frame(w)].at].score),
                    ![frame(w)].at = @ + 1]
    /\ UNCHANGED <<calls, matcherVars, hasherVars, indexerVars, flowVars>>

\* matches = [] and the loop over parents_scores.items()
rank_aggregate(w) ==
    /\ calls[w].op = "rank" /\ calls[w].pc = "group"
    /\ frames[frame(w)].at \notin DOMAIN calls[w].doc.matches
    /\ frames' = [frames EXCEPT
                    ![frame(w)].matches = items_matches(frames[frame(w)].parents_scores)]
    /\ calls' = [calls EXCEPT ![w].pc = "replace"]
    /\ UNCHANGED <<matcherVars, hasherVars, indexerVars, flowVars>>

\* doc.matches.clear(); doc.matches.extend(sorted(matches, ...)); return
rank_replace(w) ==
    /\ calls[w].op = "rank" /\ calls[w].pc = "replace"
    /\ calls' = [calls EXCEPT
                   ![w].doc.matches = clear(@) \o sorted(frames[frame(w)].matches),
                   ![w].pc = "done"]
    /\ UNCHANGED <<frames, matcherVars, hasherVars, indexerVars, flowVars>>

\* `if doc.tags:`, idxs, data = [], [] and table = np.zeros(self.n_dim)
encode_begin(w) ==
    /\ calls[w].op = "encode" /\ calls[w].pc = "begin"
    /\ IF calls[w].doc.tags = <<>>
       THEN /\ calls' = [calls EXCEPT ![w].pc = "done"]
            /\ UNCHANGED frames
       ELSE /\ frames' = [frames EXCEPT
                            ![frame(w)] = Locals(<<>>, <<>>, <<>>, <<>>, zeros(th.n_dim), 1)]
            /\ calls' = [calls EXCEPT ![w].pc = "pairs"]
    /\ UNCHANGED <<matcherVars, hasherVars, indexerVars, flowVars>>

\* the appends and table[col] += val for the hashed pair r, or its exception
pair_step(w, r) ==
    IF r.exc # NoError
    THEN /\ calls' = [calls EXCEPT ![w].pc = "done", ![w].exc = r.exc]
         /\ UNCHANGED frames
    ELSE /\ frames' = [frames EXCEPT
                         ![frame(w)].idxs = Append(@, r.val.col),
                         ![frame(w)].data = Append(@, r.val.val),
                         ![frame(w)].table = accumulate(@, r.val.col, r.val.val),
                         ![frame(w)].at = @ + 1]
         /\ UNCHANGED calls

\* one pass of `for k, v in doc.tags.items()`
encode_pair(w) ==
    /\ calls[w].op = "encode" /\ calls[w].pc = "pairs"
    /\ frames[frame(w)].at \in DOMAIN calls[w].doc.tags
    /\ pair_step(w, hash_pair(calls[w].doc.tags[frames[frame(w)].at].k,
                              calls[w].doc.tags[frames[frame(w)].at].v, th))
    /\ UNCHANGED <<matcherVars, hasherVars, indexerVars, flowVars>>

\* doc.embedding = csr_matrix(...) or table; return
encode_assign(w) ==
    /\ calls[w].op = "encode" /\ calls[w].pc = "pairs"
    /\ frames[frame(w)].at \notin DOMAIN calls[w].doc.tags
    /\ calls' = [calls EXCEPT
                   ![w].doc.embedding =
                       IF th.sparse
                       THEN csr_matrix(frames[frame(w)].data, frames[frame(w)].idxs, th.n_dim)
                       ELSE ndarray(frames[frame(w)].table),
                   ![w].pc = "done"]
    /\ UNCHANGED <<frames, matcherVars, hasherVars, indexerVars, flowVars>>

\* Records handed to the invocations: query Documents with two chunk-level
\* matches; the filters, a Document without tags and one whose names collide
RankRecords ==
    {QueryDoc(<<ChunkMatch("chunk1", 10), ChunkMatch(c, sc)>>) :
        c \in {"chunk2", "chunk3"}, sc \in Scores}

EncodeRecords ==
    {TaggedDoc(t) : t \in filters \cup {<<>>, SubjectComedy \o <<[k |-> PyStr(<<"1", "6">>), v |-> PyInt(-5)]>>}}

InitConcurrent ==
    /\ calls \in [Workers -> {Call("rank", d) : d \in RankRecords}
                                \cup {Call("encode", d) : d \in EncodeRecords}]
    /\ frames = [f \in Workers |-> NoLocals]
    /\ th \in Configs
    /\ da = <<>>
    /\ enc_raised = NoError
    /\ enc_docs = <<>>
    /\ MatcherIdle
    /\ IndexerIdle
    /\ FlowIdle

NextConcurrent ==
    \E w \in Workers :
        \/ rank_begin(w)
        \/ rank_append(w)
        \/ rank_aggregate(w)
        \/ rank_replace(w)
        \/ encode_begin(w)
        \/ encode_pair(w)
        \/ encode_assign(w)

SpecConcurrent == InitConcurrent /\ [][NextConcurrent]_vars

----------------------------------------------------------------------------
(* Properties of the hasher *)

Encoded(d) == d.embedding # NoEmbedding

\* the vector an embedding denotes
ToDense(e) ==
    IF e.kind = "ndarray" THEN e.table
    ELSE [j \in 0..(e.shape[2] - 1) |-> IF j \in DOMAIN e.entries THEN e.entries[j] ELSE 0]

RECURSIVE SetSum(_, _)
SetSum(S, f) ==
    IF S = {} THEN 0
    ELSE LET x == CHOOSE y \in S : TRUE IN f[x] + SetSum(S \ {x}, f)

\* dimension and contribution of a pair as the claim words them
PairDim(pair) == (any_hash(pair.k).val.q \div Scale) % th.n_dim
PairContribution(pair) ==
    np_sign(any_hash(pair.k).val) * np_sign(any_hash(pair.v).val)
        * (any_hash(pair.v).val.q % (th.max_val * Scale))
Dims(tags) == [i \in DOMAIN tags |-> PairDim(tags[i])]
Contributions(tags) == [i \in DOMAIN tags |-> PairContribution(tags[i])]
Sharing(dims, j) == {i \in DOMAIN dims : dims[i] = j}

C5_SumOfContributions ==
    /\ enc_raised = NoError
    /\ \A d \in DOMAIN da :
          Encoded(da[d]) =>
              LET dims == Dims(da[d].tags)
                  contributions == Contributions(da[d].tags)
              IN ToDense(da[d].embedding) =
                    [j \in 0..(th.n_dim - 1) |-> SetSum(Sharing(dims, j), contributions)]

C5_Witness ==
    \E d \in DOMAIN da :
        /\ Encoded(da[d])
        /\ Len(da[d].tags) = 2
        /\ PairDim(da[d].tags[1]) = PairDim(da[d].tags[2])
        /\ PairContribution(da[d].tags[1]) # 0
        /\ PairContribution(da[d].tags[2]) # 0
        /\ ToDense(da[d].embedding)[PairDim(da[d].tags[1])] =
              PairContribution(da[d].tags[1]) + PairContribution(da[d].tags[2])

\* C6: an embedding has exactly n_dim components, and each non-zero
\* component is smaller in magnitude than max_val times the number of
\* attributes whose name hashes to its dimension.
C6_WidthAndMagnitude ==
    \A d \in DOMAIN da :
        Encoded(da[d]) =>
            LET dims == Dims(da[d].tags)
                vec == ToDense(da[d].embedding)
            IN /\ DOMAIN vec = 0..(th.n_dim - 1)
               /\ Cardinality(DOMAIN vec) = th.n_dim
               /\ \A j \in DOMAIN vec :
                     vec[j] # 0 =>
                         Abs(vec[j]) < th.max_val * Scale * Cardinality(Sharing(dims, j))

C6_Witness ==
    \E d \in DOMAIN da : \E j \in 0..(th.n_dim - 1) :
        /\ Encoded(da[d])
        /\ Cardinality(Sharing(Dims(da[d].tags), j)) = 2
        /\ Abs(ToDense(da[d].embedding)[j]) >= th.max_val * Scale

\* C10: encode raises for no attribute value, and a Document whose only
\* attribute is null or empty gets the all-zero vector.
C10_NoErrorOnAnyValue ==
    /\ enc_raised = NoError
    /\ \A d \in DOMAIN da :
          (Encoded(da[d]) /\ Len(da[d].tags) = 1
             /\ da[d].tags[1].v \in {PyNone, PyStr(<<>>), PyList(<<>>), PyDict(<<>>)})
            => \A j \in DOMAIN ToDense(da[d].embedding) : ToDense(da[d].embedding)[j] = 0

\* C11: an encode call leaves the embedding of every Document without tags
\* that it received as it was (none stays none, an earlier one stays), and
\* a call that received only such Documents raises nothing.
C11_UntaggedSkipped ==
    [][(enc_docs' # enc_docs \/ da' # da \/ enc_raised' # enc_raised) =>
         /\ \A d \in Range(enc_docs') :
               da[d].tags = <<>> => da'[d].embedding = da[d].embedding
         /\ (\A d \in Range(enc_docs') : da[d].tags = <<>>) => enc_raised' = NoError
      ]_vars

C11_Witness ==
    /\ th # NoHasher
    /\ Len(enc_docs) = 2
    /\ da[enc_docs[1]] = [tags |-> <<>>, embedding |-> PriorEmbedding]
    /\ da[enc_docs[2]] = TaggedDoc(<<>>)
    /\ enc_raised = NoError

\* C12: once the Documents with tags {"Subject": "Comedy"} and {"Subject":
\* "Comedy", "Year": 1987} are encoded, both vectors are non-zero in the
\* dimension of the name "Subject".
C12_SharedKeyOverlap ==
    \A i, j \in DOMAIN da :
        (/\ da[i].tags = SubjectComedy
         /\ da[j].tags \in {SubjectComedy \o Year1987, Year1987 \o SubjectComedy}
         /\ Encoded(da[i]) /\ Encoded(da[j]))
        => LET c == PairDim(SubjectComedy[1])
           IN /\ ToDense(da[i].embedding)[c] # 0
              /\ ToDense(da[j].embedding)[c] # 0

C12_Witness ==
    /\ th = [n_dim |-> 256, max_val |-> 65536, sparse |-> FALSE]
    /\ da[1].tags = SubjectComedy
    /\ da[2].tags = SubjectComedy \o Year1987
    /\ Encoded(da[1]) /\ Encoded(da[2])
    /\ PairDim(SubjectComedy[1]) = 16
    /\ ToDense(da[1].embedding)[16] = 25614 * Scale
    /\ ToDense(da[2].embedding)[16] = 25614 * Scale
    /\ ToDense(da[2].embedding)[242] = 1987 * Scale

\* C13: for an int or float attribute value v, _any_hash returns the
\* number v itself.
C13_NumbersUnchanged ==
    \A d \in Range(enc_docs) : \A i \in DOMAIN da[d].tags :
        LET v == da[d].tags[i].v
        IN v.t \in {"int", "float"} =>
              /\ any_hash(v).exc = NoError
              /\ any_hash(v).val.q = (IF v.t = "int" THEN v.v * Scale ELSE v.v)

\* C14: a TagsHasher that has been constructed has a positive n_dim and a
\* positive max_val.
C14_ConfigRejected ==
    th # NoHasher => (th.n_dim > 0 /\ th.max_val > 0)

\* C15: the vector of an encoded Document is the vector the same tags get
\* from a TagsHasher that differs in the sparse flag alone.
C15_SparseIsDense ==
    \A d \in DOMAIN da :
        Encoded(da[d]) =>
            LET other == encode_doc(TaggedDoc(da[d].tags), [th EXCEPT !.sparse = ~th.sparse])
            IN /\ other.exc = NoError
               /\ other.doc.embedding.kind # da[d].embedding.kind
               /\ ToDense(other.doc.embedding) = ToDense(da[d].embedding)

C15_Witness ==
    \E d \in DOMAIN da :
        /\ th.sparse
        /\ Encoded(da[d])
        /\ da[d].embedding.kind = "csr"
        /\ Len(da[d].tags) = 2
        /\ PairDim(da[d].tags[1]) = PairDim(da[d].tags[2])
        /\ PairContribution(da[d].tags[1]) # 0
        /\ PairContribution(da[d].tags[2]) # 0
        /\ ToDense(encode_doc(TaggedDoc(da[d].tags), [th EXCEPT !.sparse = FALSE]).doc.embedding)
              = ToDense(da[d].embedding)

\* what an invocation leaves when it runs alone
Alone(call, self) ==
    IF call.op = "rank" THEN [exc |-> NoError, doc |-> rank_doc(call.given)]
    ELSE encode_doc(call.given, self)

\* C19: in every interleaving of two invocations on Records of their own, a
\* step of one invocation changes neither the other invocation's Record and
\* position nor its local variables nor the executor's attributes, and an
\* invocation that has returned left the result it leaves when run alone.
C19_ConcurrentSafe ==
    [][/\ th' = th
       /\ \A w \in Workers :
             calls'[w] # calls[w] =>
                 \A v \in Workers \ {w} : calls'[v] = calls[v] /\ frames'[v] = frames[v]
       /\ \A w \in Workers :
             calls'[w].pc = "done" =>
                 /\ calls'[w].doc = Alone(calls'[w], th').doc
                 /\ calls'[w].exc = Alone(calls'[w], th').exc
      ]_vars

C19_Witness ==
    /\ \A w \in Workers : calls[w].pc = "done"
    /\ calls[1].op = "rank" /\ calls[2].op = "encode"
    /\ frames[1].at = 3 /\ frames[2].at = 3
    /\ Len(calls[1].given.matches) = 2
    /\ Len(calls[1].doc.matches) = 1
    /\ calls[1].doc = rank_doc(calls[1].given)
    /\ Len(calls[2].given.tags) = 2
    /\ calls[2].doc.embedding # NoEmbedding
    /\ calls[2].doc = encode_doc(calls[2].given, th).doc

----------------------------------------------------------------------------
(* Properties of the fuzzy-grep flow *)

\* C21: each Indexer instance owns its own collection: every match that a
\* search served by one instance leaves on a query is a Record that was added
\* through the index endpoint of that same instance.
C21_OwnCollection ==
    \A i \in DOMAIN grep_req.docs :
        \A k \in DOMAIN grep_req.docs[i].matches :
            \E p \in DOMAIN _docs :
                /\ _docs[p].id = grep_req.docs[i].matches[k].id
                /\ added_by[p] = grep_req.via

\* C26: the last embedding position is reserved for unknown characters: the
\* embedding of a text is non-zero at dim - 1 exactly when the text has a
\* character whose code point lies outside [32, 127], and every character
\* within [32, 127] is counted at ord - 32, a position below dim - 1.
C26_LastReservedForUnknown ==
    \A i \in DOMAIN grep_req.docs :
        LET d == grep_req.docs[i]
        IN d.embedding # NoEmbedding =>
            /\ d.embedding[dim - 1] # 0 <=> \E k \in DOMAIN d.text : d.text[k] < 32 \/ d.text[k] > 127
            /\ \A k \in DOMAIN d.text :
                   (32 <= d.text[k] /\ d.text[k] <= 127) =>
                       /\ d.text[k] - 32 < dim - 1
                       /\ d.embedding[d.text[k] - 32] # 0

----------------------------------------------------------------------------
(* Properties of the image flows *)

\* no Record of the chunk index or of the key-value store carries a score
Unscored ==
    /\ \A i \in DOMAIN _index :
           /\ _index[i].score = NoScore
           /\ \A k \in DOMAIN _index[i].chunks : _index[i].chunks[k].score = NoScore
    /\ \A p \in DOMAIN db : from_bytes(db[p]).doc.score = NoScore

\* C22: the steps of the query flow (SimpleIndexer.search, SimpleRanker.rank,
\* LMDBStorage.search) leave the chunk index and the key-value store as they
\* were, and no indexed Record carries a score afterwards.
C22_QueryReadOnly ==
    [][stage' # stage => (_index' = _index /\ db' = db /\ Unscored')]_vars

\* a query flow has run to its end over a non-empty index and store
C22_Witness ==
    /\ stage = "resolved"
    /\ docs # <<>> /\ Len(docs[1].matches) = 2
    /\ Len(chunks_of(_index)) = 3
    /\ DOMAIN db = ParentIds

\* C23: LMDBStorage.index is atomic per request: when the request is stored
\* every one of its Documents is in the store, and when a put raised the
\* store is as it was before the request.
C23_IndexAtomic ==
    [][/\ (flow.roots = "posted" /\ flow'.roots = "stored") =>
              \A i \in DOMAIN flow.docs :
                  get(db', flow.docs[i].id) = to_bytes(as_root(flow.docs[i]))
       /\ (flow.roots = "posted" /\ flow'.roots = "failed") => db' = db]_vars

\* a request of two Documents has failed at one of its puts, and neither
\* Document is in the store
C23_Witness ==
    /\ flow.roots = "failed"
    /\ Len(flow.docs) = 2
    /\ raised = "MapFullError"
    /\ \A i \in DOMAIN flow.docs : flow.docs[i].id \notin DOMAIN db

\* C24: once an index request has completed, every chunk of the chunk index
\* has a parent_id that is a key of the LMDB store; and the parent_id of an
\* indexed chunk never changes.
C24_ParentsStored ==
    [][/\ Completed(flow') =>
              \A i \in DOMAIN _index' : \A k \in DOMAIN _index'[i].chunks :
                  _index'[i].chunks[k].parent_id \in DOMAIN db'
       /\ \A i \in DOMAIN _index : \A k \in DOMAIN _index[i].chunks :
              /\ i \in DOMAIN _index' /\ k \in DOMAIN _index'[i].chunks
              /\ _index'[i].chunks[k].parent_id = _index[i].chunks[k].parent_id]_vars

----------------------------------------------------------------------------
(* Properties of the doc2query indexer *)

\* the sum of the cosine scores of the chunks of parent p among the matches ms
SumOf(ms, p) == SeqSum([k \in DOMAIN ms |-> IF ms[k].parent_id = p THEN ms[k].score ELSE 0])

\* C25: SimpleIndexer.search leaves each query with at most 10 matches, all
\* copies of indexed parent Records, no parent twice, ordered by
\* non-increasing sum of the cosine scores of the parent's matched chunks, and
\* they are the parents with the largest sums.
C25_TopParentsBySum ==
    stage = "searched" =>
        \A i \in DOMAIN docs :
            LET out == docs[i].matches
                ms == rank_in[i].matches
                parents == {ms[k].parent_id : k \in DOMAIN ms}
            IN /\ Len(out) <= 10
               /\ Len(out) = 10 \/ Len(out) = Cardinality(parents)
               /\ \A k \in DOMAIN out :
                      /\ out[k] \in Range(_index)
                      /\ out[k].id \in parents
                      /\ \A l \in DOMAIN out : l # k => out[l].id # out[k].id
                      /\ k < Len(out) => SumOf(ms, out[k].id) >= SumOf(ms, out[k + 1].id)
                      /\ \A p \in parents :
                             (\A l \in DOMAIN out : out[l].id # p) =>
                                 SumOf(ms, p) <= SumOf(ms, out[k].id)

\* more than 10 parents had matched chunks, with different sums, one of them
\* with two chunks; 10 are returned
C25_Witness ==
    /\ stage = "searched"
    /\ Len(docs[1].matches) = 10
    /\ Cardinality({rank_in[1].matches[k].parent_id : k \in DOMAIN rank_in[1].matches}) = 12
    /\ SumOf(rank_in[1].matches, docs[1].matches[1].id) > SumOf(rank_in[1].matches, docs[1].matches[10].id)
    /\ \E k \in DOMAIN rank_in[1].matches :
           /\ rank_in[1].matches[k].parent_id = docs[1].matches[1].id
           /\ rank_in[1].matches[k].score < SumOf(rank_in[1].matches, docs[1].matches[1].id)

----------------------------------------------------------------------------
(* Further properties of the hasher *)

\* C27: an attribute whose value canonicalizes to 0 contributes 0: a Document
\* with such an attribute next to others has the vector of the Document
\* without it, and an encoded Document that has only such attributes gets an
\* embedding, which is zero in every dimension.
C27_ZeroContributes ==
    /\ (Encoded(da[1]) /\ Encoded(da[2])) =>
           ToDense(da[1].embedding) = ToDense(da[2].embedding)
    /\ (da[2].tags = <<>> /\ 1 \in Range(enc_docs)) =>
           /\ enc_raised = NoError
           /\ Encoded(da[1])
           /\ ToDense(da[1].embedding) = zeros(th.n_dim)

\* a Document with {Subject: 'Comedy', Year: ' No '} and one with {Subject:
\* 'Comedy'} are encoded alike, with a non-zero vector
C27_Witness ==
    /\ da[1].tags = SubjectComedy \o <<[k |-> PyStr(<<"Y", "e", "a", "r">>), v |-> PyStr(<<" ", "N", "o", " ">>)]>>
    /\ da[2].tags = SubjectComedy
    /\ Encoded(da[1]) /\ Encoded(da[2])
    /\ ToDense(da[1].embedding) = ToDense(da[2].embedding)
    /\ ToDense(da[1].embedding) # zeros(th.n_dim)

\* C28: an int attribute value and its decimal string, with or without
\* surrounding whitespace, give the same contribution: the two Documents have
\* the same embedding once both are encoded, and encoding the string raises
\* nothing.
C28_NumberOrString ==
    /\ enc_raised = NoError
    /\ (Encoded(da[1]) /\ Encoded(da[2])) => da[1].embedding = da[2].embedding

\* {'Year': 1987} and {'Year': ' 1987 '} are encoded, to a non-zero vector
C28_Witness ==
    /\ da[1].tags = Year1987
    /\ da[2].tags = <<[k |-> PyStr(<<"Y", "e", "a", "r">>), v |-> PyStr(<<" ", "1", "9", "8", "7", " ">>)]>>
    /\ Encoded(da[1]) /\ Encoded(da[2])
    /\ da[1].embedding = da[2].embedding
    /\ ToDense(da[1].embedding)[PairDim(Year1987[1])] = 1987 * Scale

----------------------------------------------------------------------------
(* Ranking a ranked request *)

\* C29: rank applied to the parent-level list it produced groups all the
\* entries under one key: a non-empty list becomes exactly one match, whose
\* score is the minimum of the parent-level scores.
C29_SecondRankCollapses ==
    stage = "reranked" =>
        \A i \in DOMAIN docs :
            rank_in[i].matches # <<>> =>
                /\ Len(docs[i].matches) = 1
                /\ docs[i].matches[1].score
                      = SetMin({rank_in[i].matches[k].score : k \in DOMAIN rank_in[i].matches})

\* a list of two parents with different scores was ranked again
C29_Witness ==
    /\ stage = "reranked"
    /\ Len(rank_in) = 1
    /\ Len(rank_in[1].matches) = 2
    /\ rank_in[1].matches[1].score < rank_in[1].matches[2].score
    /\ docs[1].matches = <<NewMatch(None, rank_in[1].matches[1].score)>>

\* a name that parses neither as a number nor as a boolean-like word
WordName(k) ==
    /\ py_int(k).exc = "ValueError"
    /\ py_float(k).exc = "ValueError"
    /\ lower(strip(k.v)) \notin {<<"t", "r", "u", "e">>, <<"y", "e", "s">>,
                                 <<"f", "a", "l", "s", "e">>, <<"n", "o">>}

\* a name or value that parses as a number
NumberLike(v) == py_int(v).exc = NoError \/ py_float(v).exc = NoError

\* the component that the single attribute of Document 1 went to
Component == ToDense(da[1].embedding)[PairDim(da[1].tags[1])]

\* C30 as claimed: for a name that parses neither as a number nor as a
\* boolean-like word, sign_name is +1 and the sign of the contribution equals
\* the sign of the canonical value; contributions of string-hashed values lie
\* in [0, max_val); and a negative component comes from a negative numeric
\* value or a numeric-looking name.
C30_SignOfValue ==
    Encoded(da[1]) =>
        LET k == da[1].tags[1].k
            v == da[1].tags[1].v
        IN /\ WordName(k) =>
                  /\ np_sign(any_hash(k).val) = 1
                  /\ Sgn(Component) = np_sign(any_hash(v).val)
                  /\ any_hash(v).val.digest =>
                         (0 <= Component /\ Component < th.max_val * Scale)
           /\ (\E j \in DOMAIN ToDense(da[1].embedding) : ToDense(da[1].embedding)[j] < 0) =>
                  \/ NumberLike(v) /\ np_sign(any_hash(v).val) = -1
                  \/ NumberLike(k)

\* C30 as amended: for a non-empty name that parses neither as a number nor
\* as a boolean-like word, sign_name is +1 and the contribution is 0 (the
\* value is a multiple of max_val) or has the sign of the canonical value;
\* contributions of string-hashed values lie in [0, max_val); and a negative
\* component comes from a negative numeric value or a numeric-looking name.
C30_SignOfValueOrZero ==
    Encoded(da[1]) =>
        LET k == da[1].tags[1].k
            v == da[1].tags[1].v
        IN /\ (WordName(k) /\ k.v # <<>>) =>
                  /\ np_sign(any_hash(k).val) = 1
                  /\ \/ Component = 0 /\ any_hash(v).val.q % (th.max_val * Scale) = 0
                     \/ Sgn(Component) = np_sign(any_hash(v).val)
                  /\ any_hash(v).val.digest =>
                         (0 <= Component /\ Component < th.max_val * Scale)
           /\ (\E j \in DOMAIN ToDense(da[1].embedding) : ToDense(da[1].embedding)[j] < 0) =>
                  \/ NumberLike(v) /\ np_sign(any_hash(v).val) = -1
                  \/ NumberLike(k)

\* {'Subject': -5} is encoded by TagsHasher(n_dim=4, max_val=16): the
\* component is -(-5 % 16) = -11
C30_Witness ==
    /\ th.max_val = 16
    /\ da[1].tags = <<[k |-> PyStr(<<"S", "u", "b", "j", "e", "c", "t">>), v |-> PyInt(-5)]>>
    /\ Encoded(da[1])
    /\ Component = -11 * Scale

====
